---- MODULE Spec2Model ----
(***************************************************************************)
(* Response files (mvdan.cc/responsefile): Shorten writes an argument list *)
(* to a temporary file and returns "@path"; Expand reads "@path" arguments *)
(* back, recursively.  A Go string is modelled as the sequence of its      *)
(* bytes (integers 0..255); a []string as a record that keeps nil apart    *)
(* from the empty slice; the filesystem as a function from paths to files. *)
(***************************************************************************)
EXTENDS Integers, Sequences, FiniteSets, TLC

VARIABLES
    fs,          \* the filesystem: path -> [exists, data]
    args0,       \* Shorten: the args parameter
    limit,       \* Shorten: opts.ArgLengthLimit
    spc,         \* Shorten: position in the function
    buf,         \* Shorten: the encoded buffer
    cleanupVar,  \* Shorten: the named result cleanup
    sret,        \* Shorten: what it returned, [list, cleanup, err]
    created,     \* number of temporary files CreateTemp has made
    cleaned,     \* the caller invoked the cleanup handle
    eargs,       \* Expand: the args of the top-level call
    ecalled,     \* the caller of Shorten called Expand: "no", "yes"
    stack,       \* Expand: the call stack, innermost frame last
    eret,        \* Expand: the value a returning call hands to its caller
    epc,         \* Expand: "idle", "running", "done"
    eres,        \* Expand: the top-level call's result, [list, err]
    cs,          \* codec: the input string
    cenc,        \* codec: appendEncodedArg's output
    cdec,        \* codec: decodeArg's output, [v, err]
    cpc          \* codec: "input", "encoded", "decoded", "linedecoded"

vars == <<fs, args0, limit, spc, buf, cleanupVar, sret, created, cleaned,
          eargs, ecalled, stack, eret, epc, eres, cs, cenc, cdec, cpc>>

shortenVars == <<args0, limit, spc, buf, cleanupVar, sret, created, cleaned>>
expandVars == <<eargs, ecalled, stack, eret, epc, eres>>
codecVars == <<cs, cenc, cdec, cpc>>

---------------------------------------------------------------------------
(* Bounds of the model. *)

\* longest string the codec specification encodes and decodes
MaxStrLen == 4
\* Shorten: most arguments in a list, and most bytes in all of them together
MaxArgs == 2
MaxTotal == 3
\* Shorten: the largest explicit ArgLengthLimit (the smallest is -1)
MaxLimit == 3
\* Expand: longest enumerated content of the file "q"
MaxContentLen == 3
\* Expand: deepest call stack the model follows (the code has no bound)
MaxDepth == 4

---------------------------------------------------------------------------
(* Bytes the code names. *)

BS == 92
LF == 10
CR == 13
AT == 64
LowerN == 110
\* 30 << 10
DefaultArgLengthLimit == 30720

\* the bytes of U+FFFD, what utf8.AppendRune writes for utf8.RuneError
RuneErrorBytes == <<239, 191, 189>>

---------------------------------------------------------------------------
(* Go values. *)

NilSlice == [nil |-> TRUE, v |-> <<>>]
Slice(v) == [nil |-> FALSE, v |-> v]

ErrNone == ""
ErrEscape == "unsupported escape sequence"
ErrRead == "cannot read response file"
ErrCreate == "cannot create response file"
ErrWrite == "cannot write response file"
ErrClose == "cannot close response file"

\* strings.ContainsAny / strings.Contains for single-byte characters
ContainsAny(s, chars) == \E i \in 1..Len(s) : s[i] \in chars

\* strings.HasPrefix(s, "@")
HasPrefixAt(s) == Len(s) >= 1 /\ s[1] = AT

\* a plausible slip: strings.TrimRight(line, "\r")
RECURSIVE TrimRightCR(_)
TrimRightCR(line) ==
    IF Len(line) >= 1 /\ line[Len(line)] = CR
    THEN TrimRightCR(SubSeq(line, 1, Len(line) - 1))
    ELSE line

\* strings.TrimSuffix(line, "\r")
TrimSuffixCR(line) ==
    IF Len(line) >= 1 /\ line[Len(line)] = CR
    THEN SubSeq(line, 1, Len(line) - 1)
    ELSE line

\* strings.Cut(rest, "\n"): [line, rest]
Cut(s) ==
    IF \E i \in 1..Len(s) : s[i] = LF
    THEN LET k == CHOOSE i \in 1..Len(s) :
                      s[i] = LF /\ \A j \in 1..(i - 1) : s[j] # LF
         IN [line |-> SubSeq(s, 1, k - 1), rest |-> SubSeq(s, k + 1, Len(s))]
    ELSE [line |-> s, rest |-> <<>>]

\* a continuation byte
IsCont(b) == b >= 128 /\ b <= 191

\* utf8: the size a leading byte announces (0: not a leading byte)
LeadSize(b) ==
    IF b >= 194 /\ b <= 223 THEN 2
    ELSE IF b >= 224 /\ b <= 239 THEN 3
    ELSE IF b >= 240 /\ b <= 244 THEN 4
    ELSE 0

\* utf8: the accepted range of the second byte
SecondOk(b0, b1) ==
    IF b0 = 224 THEN b1 >= 160 /\ b1 <= 191
    ELSE IF b0 = 237 THEN b1 >= 128 /\ b1 <= 159
    ELSE IF b0 = 240 THEN b1 >= 144 /\ b1 <= 191
    ELSE IF b0 = 244 THEN b1 >= 128 /\ b1 <= 143
    ELSE IsCont(b1)

\* One iteration of "for _, r := range s" at byte i: the rune, represented
\* by its UTF-8 encoding, and the bytes it consumed.  An invalid or short
\* sequence gives utf8.RuneError and consumes one byte.
DecodeRune(s, i) ==
    LET b0 == s[i]
        n == Len(s) - i + 1
        sz == LeadSize(b0)
        bad == [bytes |-> RuneErrorBytes, w |-> 1]
    IN  IF b0 < 128 THEN [bytes |-> <<b0>>, w |-> 1]
        ELSE IF sz = 0 \/ n < sz THEN bad
        ELSE IF ~SecondOk(b0, s[i + 1]) THEN bad
        ELSE IF sz = 2 THEN [bytes |-> SubSeq(s, i, i + 1), w |-> 2]
        ELSE IF ~IsCont(s[i + 2]) THEN bad
        ELSE IF sz = 3 THEN [bytes |-> SubSeq(s, i, i + 2), w |-> 3]
        ELSE IF ~IsCont(s[i + 3]) THEN bad
        ELSE [bytes |-> SubSeq(s, i, i + 3), w |-> 4]

\* the string is valid UTF-8: a sequence of codepoints
RECURSIVE ValidFrom(_, _)
ValidFrom(s, i) ==
    IF i > Len(s) THEN TRUE
    ELSE LET d == DecodeRune(s, i)
         IN  (d.w > 1 \/ s[i] < 128) /\ ValidFrom(s, i + d.w)

ValidUTF8(s) == ValidFrom(s, 1)

---------------------------------------------------------------------------
(* appendEncodedArg and decodeArg. *)

RECURSIVE encodeLoop(_, _, _)
encodeLoop(out, arg, i) ==
    IF i > Len(arg) THEN out
    ELSE LET d == DecodeRune(arg, i)
         IN  IF d.bytes = <<BS>> THEN encodeLoop(out \o <<BS, BS>>, arg, i + d.w)
             ELSE IF d.bytes = <<LF>> THEN encodeLoop(out \o <<BS, LowerN>>, arg, i + d.w)
             ELSE encodeLoop(out \o d.bytes, arg, i + d.w)

\* a plausible slip: the backslash is written once, not doubled
RECURSIVE encodeLoopSingleBS(_, _, _)
encodeLoopSingleBS(out, arg, i) ==
    IF i > Len(arg) THEN out
    ELSE LET d == DecodeRune(arg, i)
         IN  IF d.bytes = <<BS>> THEN encodeLoopSingleBS(out \o <<BS>>, arg, i + d.w)
             ELSE IF d.bytes = <<LF>> THEN encodeLoopSingleBS(out \o <<BS, LowerN>>, arg, i + d.w)
             ELSE encodeLoopSingleBS(out \o d.bytes, arg, i + d.w)

appendEncodedArgSingleBS(out, arg) ==
    IF ~ContainsAny(arg, {BS, LF}) THEN out \o arg
    ELSE encodeLoopSingleBS(out, arg, 1)

appendEncodedArg(out, arg) ==
    IF ~ContainsAny(arg, {BS, LF}) THEN out \o arg
    ELSE encodeLoop(out, arg, 1)

RECURSIVE decodeLoop(_, _, _, _)
decodeLoop(line, i, escaping, out) ==
    IF i > Len(line) THEN [v |-> out, err |-> ErrNone]
    ELSE LET d == DecodeRune(line, i)
         IN  IF escaping
             THEN IF d.bytes = <<BS>> THEN decodeLoop(line, i + d.w, FALSE, out \o <<BS>>)
                  ELSE IF d.bytes = <<LowerN>> THEN decodeLoop(line, i + d.w, FALSE, out \o <<LF>>)
                  ELSE [v |-> <<>>, err |-> ErrEscape]
             ELSE IF d.bytes = <<BS>> THEN decodeLoop(line, i + d.w, TRUE, out)
             ELSE decodeLoop(line, i + d.w, FALSE, out \o d.bytes)

decodeArg(line) ==
    IF ~ContainsAny(line, {BS}) THEN [v |-> line, err |-> ErrNone]
    ELSE decodeLoop(line, 1, FALSE, <<>>)

---------------------------------------------------------------------------
(* The filesystem. *)

\* the paths the model's files live at: "p", "q", and the name os.CreateTemp
\* hands out
PathP == <<112>>
PathQ == <<113>>
TempName == <<116>>
AllPaths == {PathP, PathQ, TempName}

NoFile == [exists |-> FALSE, data |-> <<>>]
File(data) == [exists |-> TRUE, data |-> data]
EmptyFS == [p \in AllPaths |-> NoFile]

\* os.ReadFile(path)
ReadFile(f, path) ==
    IF path \in DOMAIN f /\ f[path].exists
    THEN [data |-> f[path].data, err |-> ErrNone]
    ELSE [data |-> <<>>, err |-> ErrRead]

\* os.Remove(path), taken to succeed
Remove(f, path) == [f EXCEPT ![path] = NoFile]

\* calling a cleanup func: func() {} or func() { os.Remove(f.Name()) }
RunCleanup(f, c) == IF c = "remove" THEN Remove(f, TempName) ELSE f

---------------------------------------------------------------------------
(* Shorten. *)

applyDefaults(l) == IF l = 0 THEN DefaultArgLengthLimit ELSE l

RECURSIVE SumLen(_, _)
SumLen(v, k) == IF k > Len(v) THEN 0 ELSE Len(v[k]) + SumLen(v, k + 1)

\* for _, arg := range args { argLen += len(arg) }
ArgLen(v) == SumLen(v, 1)

\* a plausible slip: < for <=
FitsLimitStrict(argLen, lim) == argLen = 0 \/ argLen < lim

\* argLen == 0 || argLen <= opts.ArgLengthLimit
FitsLimit(argLen, lim) == argLen = 0 \/ argLen <= lim

RECURSIVE EncodeFrom(_, _, _)
EncodeFrom(out, v, k) ==
    IF k > Len(v) THEN out
    ELSE EncodeFrom(Append(appendEncodedArg(out, v[k]), LF), v, k + 1)

\* the buffer Shorten writes: each argument encoded, then '\n'
EncodeArgs(v) == EncodeFrom(<<>>, v, 1)

Returned(list, cleanup, err) == [list |-> list, cleanup |-> cleanup, err |-> err]

\* a plausible slip: the named result cleanup, already assigned, is returned
WriteFailReturnKeepsCleanup(c) == Returned(NilSlice, c, ErrWrite)

\* return nil, nil, fmt.Errorf("cannot write response file: %w", err)
WriteFailReturn(c) == Returned(NilSlice, "nil", ErrWrite)

\* a plausible slip: the close failure path forgets cleanup()
CloseFailFSLeak(f, c) == f

\* the close failure path: cleanup()
CloseFailFS(f, c) == RunCleanup(f, c)

\* Shorten up to the decision: the no-op return, or the buffer
ShortenBegin ==
    /\ spc = "start"
    /\ LET opts == applyDefaults(limit)
           argLen == ArgLen(args0.v)
       IN  IF FitsLimit(argLen, opts)
           THEN /\ sret' = Returned(args0, "noop", ErrNone)
                /\ spc' = "returned"
                /\ buf' = buf
           ELSE /\ buf' = EncodeArgs(args0.v)
                /\ spc' = "create"
                /\ sret' = sret
    /\ UNCHANGED <<fs, args0, limit, cleanupVar, created, cleaned, expandVars, codecVars>>

\* os.CreateTemp succeeds: a new, empty file; cleanup is assigned
CreateTempOk ==
    /\ spc = "create"
    /\ ~fs[TempName].exists
    /\ fs' = [fs EXCEPT ![TempName] = File(<<>>)]
    /\ cleanupVar' = "remove"
    /\ created' = created + 1
    /\ spc' = "write"
    /\ UNCHANGED <<args0, limit, buf, sret, cleaned, expandVars, codecVars>>

\* os.CreateTemp fails
CreateTempFail ==
    /\ spc = "create"
    /\ sret' = Returned(NilSlice, "nil", ErrCreate)
    /\ spc' = "returned"
    /\ UNCHANGED <<fs, args0, limit, buf, cleanupVar, created, cleaned, expandVars, codecVars>>

\* f.Write(buf) succeeds
WriteOk ==
    /\ spc = "write"
    /\ fs' = [fs EXCEPT ![TempName] = File(buf)]
    /\ spc' = "close"
    /\ UNCHANGED <<args0, limit, buf, cleanupVar, sret, created, cleaned, expandVars, codecVars>>

\* f.Write(buf) fails (the file may hold any part of buf): f.Close(),
\* cleanup(), return
WriteFail ==
    /\ spc = "write"
    /\ fs' = RunCleanup(fs, cleanupVar)
    /\ sret' = WriteFailReturn(cleanupVar)
    /\ spc' = "returned"
    /\ UNCHANGED <<args0, limit, buf, cleanupVar, created, cleaned, expandVars, codecVars>>

\* f.Close() succeeds: return []string{"@" + f.Name()}, cleanup, nil
CloseOk ==
    /\ spc = "close"
    /\ sret' = Returned(Slice(<< <<AT>> \o TempName >>), cleanupVar, ErrNone)
    /\ spc' = "returned"
    /\ UNCHANGED <<fs, args0, limit, buf, cleanupVar, created, cleaned, expandVars, codecVars>>

\* f.Close() fails: cleanup(), return
CloseFail ==
    /\ spc = "close"
    /\ fs' = CloseFailFS(fs, cleanupVar)
    /\ sret' = Returned(NilSlice, "nil", ErrClose)
    /\ spc' = "returned"
    /\ UNCHANGED <<args0, limit, buf, cleanupVar, created, cleaned, expandVars, codecVars>>

\* the caller invokes the cleanup func it was given (not while it is
\* inside Expand: the caller is sequential)
CallCleanup ==
    /\ spc = "returned"
    /\ sret.cleanup # "nil"
    /\ epc # "running"
    /\ fs' = RunCleanup(fs, sret.cleanup)
    /\ cleaned' = TRUE
    /\ UNCHANGED <<args0, limit, spc, buf, cleanupVar, sret, created, expandVars, codecVars>>

---------------------------------------------------------------------------
(* Expand, as a stack of calls.  A frame is one call: its args, the index  *)
(* i of the argument it is at (1-based), its expanded slice, and, while it *)
(* is in the loop over a file's lines, the rest of the file.               *)

NewFrame(a) == [args |-> a, i |-> 1, expanded |-> NilSlice, rest |-> <<>>, inFile |-> FALSE]

NoRet == [set |-> FALSE, list |-> NilSlice, err |-> ErrNone]
Ret(list, err) == [set |-> TRUE, list |-> list, err |-> err]

Top == stack[Len(stack)]
Pop == SubSeq(stack, 1, Len(stack) - 1)
SetTop(fr) == [stack EXCEPT ![Len(stack)] = fr]

\* a plausible slip: the arguments before the first response file are lost
InitExpandedEmpty(a, i) == Slice(<<>>)

\* expanded = make(...); expanded = append(expanded, args[:i]...)
InitExpanded(a, i) == Slice(SubSeq(a.v, 1, i - 1))

\* a plausible slip: the nested call's error is dropped
NestedFailedIgnored(r) == FALSE

\* if err != nil, after nested, err := Expand(...)
NestedFailed(r) == r.err # ErrNone

\* a plausible slip: the nested call is given the call's own args
NestedArgsOwn(a, arg) == a

\* []string{arg}
NestedArgs(a, arg) == Slice(<<arg>>)

\* the body of "for i, s := range args" up to the loop over the file
ExpandArg ==
    /\ epc = "running" /\ ~eret.set /\ stack # <<>>
    /\ ~Top.inFile /\ Top.i <= Len(Top.args.v)
    /\ LET fr == Top
           s == fr.args.v[fr.i]
       IN  IF ~HasPrefixAt(s)
           THEN /\ stack' = SetTop([fr EXCEPT
                        !.expanded = IF fr.expanded.nil THEN fr.expanded
                                     ELSE Slice(Append(fr.expanded.v, s)),
                        !.i = fr.i + 1])
                /\ eret' = eret
           ELSE LET e1 == IF fr.expanded.nil THEN InitExpanded(fr.args, fr.i)
                          ELSE fr.expanded
                    r == ReadFile(fs, Tail(s))
                IN  IF r.err # ErrNone
                    THEN /\ stack' = Pop
                         /\ eret' = Ret(NilSlice, r.err)
                    ELSE /\ stack' = SetTop([fr EXCEPT
                                 !.expanded = e1, !.rest = r.data, !.inFile = TRUE])
                         /\ eret' = eret
    /\ UNCHANGED <<fs, shortenVars, eargs, ecalled, epc, eres, codecVars>>

\* one turn of "for len(rest) > 0", or leaving it
ExpandLine ==
    /\ epc = "running" /\ ~eret.set /\ stack # <<>>
    /\ Top.inFile
    /\ LET fr == Top
           c == Cut(fr.rest)
           line == TrimSuffixCR(c.line)
           d == decodeArg(line)
       IN  IF Len(fr.rest) = 0
           THEN /\ stack' = SetTop([fr EXCEPT !.inFile = FALSE, !.i = fr.i + 1])
                /\ eret' = eret
           ELSE IF d.err # ErrNone
           THEN /\ stack' = Pop
                /\ eret' = Ret(NilSlice, d.err)
           ELSE IF HasPrefixAt(d.v)
           THEN /\ Len(stack) < MaxDepth
                /\ stack' = Append(SetTop([fr EXCEPT !.rest = c.rest]),
                                   NewFrame(NestedArgs(fr.args, d.v)))
                /\ eret' = eret
           ELSE /\ stack' = SetTop([fr EXCEPT
                        !.expanded = Slice(Append(fr.expanded.v, d.v)),
                        !.rest = c.rest])
                /\ eret' = eret
    /\ UNCHANGED <<fs, shortenVars, eargs, ecalled, epc, eres, codecVars>>

\* after the loop over args: return args or expanded
ExpandReturn ==
    /\ epc = "running" /\ ~eret.set /\ stack # <<>>
    /\ ~Top.inFile /\ Top.i > Len(Top.args.v)
    /\ stack' = Pop
    /\ eret' = Ret(IF Top.expanded.nil THEN Top.args ELSE Top.expanded, ErrNone)
    /\ UNCHANGED <<fs, shortenVars, eargs, ecalled, epc, eres, codecVars>>

\* a nested call has returned into the loop over the lines
ExpandAfterNested ==
    /\ epc = "running" /\ eret.set /\ stack # <<>>
    /\ IF NestedFailed(eret)
       THEN /\ stack' = Pop
            /\ eret' = Ret(NilSlice, eret.err)
       ELSE /\ stack' = SetTop([Top EXCEPT
                    !.expanded = Slice(Top.expanded.v \o eret.list.v)])
            /\ eret' = NoRet
    /\ UNCHANGED <<fs, shortenVars, eargs, ecalled, epc, eres, codecVars>>

\* the top-level call has returned to the caller
ExpandFinish ==
    /\ epc = "running" /\ eret.set /\ stack = <<>>
    /\ eres' = [list |-> eret.list, err |-> eret.err]
    /\ eret' = NoRet
    /\ epc' = "done"
    /\ UNCHANGED <<fs, shortenVars, eargs, ecalled, stack, codecVars>>

ExpandStep == ExpandArg \/ ExpandLine \/ ExpandReturn \/ ExpandAfterNested \/ ExpandFinish

---------------------------------------------------------------------------
(* Inputs. *)

RECURSIVE StringsUpTo(_, _)
StringsUpTo(alphabet, n) ==
    IF n = 0 THEN {<<>>}
    ELSE LET shorter == StringsUpTo(alphabet, n - 1)
         IN  shorter \cup {Append(s, b) : s \in {t \in shorter : Len(t) = n - 1}, b \in alphabet}

NoDecode == [v |-> <<>>, err |-> "not run"]

ShortenIdle ==
    /\ args0 = NilSlice /\ limit = 0 /\ spc = "idle" /\ buf = <<>>
    /\ cleanupVar = "nil" /\ sret = Returned(NilSlice, "nil", ErrNone)
    /\ created = 0 /\ cleaned = FALSE

ExpandIdle ==
    /\ eargs = NilSlice /\ ecalled = "no" /\ stack = <<>>
    /\ eret = NoRet
    /\ epc = "idle" /\ eres = [list |-> NilSlice, err |-> ErrNone]

CodecIdle == cs = <<>> /\ cenc = <<>> /\ cdec = NoDecode /\ cpc = "idle"

---------------------------------------------------------------------------
(* The Shorten specification: one Shorten call on every short argument     *)
(* list and limit, each filesystem step succeeding or failing; then the    *)
(* caller expands the returned list (or not) and invokes cleanup.          *)

\* backslash, newline, carriage return, '@' and n
ShortenBytes == {BS, LF, CR, AT, LowerN}

\* the lists of at most n arguments with at most t bytes in all
RECURSIVE ListsWithin(_, _)
ListsWithin(n, t) ==
    IF n = 0 THEN {<<>>}
    ELSE {<<>>} \cup
         UNION { {<<a>> \o rest : rest \in ListsWithin(n - 1, t - Len(a))} :
                     a \in StringsUpTo(ShortenBytes, t) }

ShortLists == ListsWithin(MaxArgs, MaxTotal)

\* one argument of exactly n bytes, none of them special
LongArg(n) == [i \in 1..n |-> 97]

\* lists at the default limit and one byte over it, and lists whose bytes
\* are more than their codepoints (U+00E9 is the bytes 195, 169)
OtherLists ==
    { <<LongArg(DefaultArgLengthLimit)>>,
      <<LongArg(DefaultArgLengthLimit + 1)>>,
      << <<195, 169>> >>,
      << <<LowerN>>, <<195, 169>> >>,
      << <<195, 169, BS>>, <<>> >> }

\* always a file, the default, and the two limits next to the largest total
Limits == {-1, 0, MaxLimit - 1, MaxLimit}

InitShorten ==
    /\ fs = EmptyFS
    /\ args0 \in {Slice(v) : v \in ShortLists \cup OtherLists}
    /\ limit \in Limits
    /\ spc = "start" /\ buf = <<>> /\ cleanupVar = "nil"
    /\ sret = Returned(NilSlice, "nil", ErrNone)
    /\ created = 0 /\ cleaned = FALSE
    /\ ExpandIdle /\ CodecIdle

\* the caller: Expand(shortened, ExpandOptions{}), before cleanup
CallExpand ==
    /\ spc = "returned" /\ sret.err = ErrNone
    /\ ~cleaned
    /\ epc = "idle"
    /\ eargs' = sret.list
    /\ ecalled' = "yes"
    /\ stack' = <<NewFrame(sret.list)>>
    /\ epc' = "running"
    /\ UNCHANGED <<fs, shortenVars, eret, eres, codecVars>>

NextShorten ==
    \/ ShortenBegin
    \/ CreateTempOk \/ CreateTempFail
    \/ WriteOk \/ WriteFail
    \/ CloseOk \/ CloseFail
    \/ CallCleanup
    \/ CallExpand
    \/ ExpandStep

Spec == InitShorten /\ [][NextShorten]_vars

---------------------------------------------------------------------------
(* The Expand specification: one Expand call over a filesystem in which    *)
(* the file "q" holds every short content and the file "p" refers to it.   *)

\* newline, carriage return, backslash, n, '@' and p
ExpandBytes == {LF, CR, BS, LowerN, AT, 112}

AtP == <<AT>> \o PathP
AtQ == <<AT>> \o PathQ

PFiles ==
    { NoFile,
      File(<<>>),
      File(AtQ),
      File(<<LowerN, LF>> \o AtQ \o <<LF, 112, LF>>),
      File(AtQ \o <<CR, LF>> \o AtQ \o <<LF>>) }

QFiles == {NoFile} \cup {File(c) : c \in StringsUpTo(ExpandBytes, MaxContentLen)}

ExpandArgLists ==
    { NilSlice,
      Slice(<<>>),
      Slice(<< <<LowerN>>, <<112, LowerN>> >>),
      Slice(<<AtQ>>),
      Slice(<<AtP>>),
      Slice(<< <<LowerN>>, AtQ, <<112>> >>),
      Slice(<<AtP, AtQ>>) }

InitExpand ==
    /\ \E pf \in PFiles, qf \in QFiles :
           fs = [EmptyFS EXCEPT ![PathP] = pf, ![PathQ] = qf]
    /\ eargs \in ExpandArgLists
    /\ ShortenIdle
    /\ ecalled = "no" /\ stack = <<>> /\ eret = NoRet
    /\ epc = "idle" /\ eres = [list |-> NilSlice, err |-> ErrNone]
    /\ CodecIdle

\* Expand(args, ExpandOptions{})
ExpandStart ==
    /\ epc = "idle"
    /\ stack' = <<NewFrame(eargs)>>
    /\ epc' = "running"
    /\ UNCHANGED <<fs, shortenVars, eargs, ecalled, eret, eres, codecVars>>

NextExpand == ExpandStart \/ ExpandStep

SpecExpand == InitExpand /\ [][NextExpand]_vars

\* the same, over fewer argument lists and contents of "p", for the
\* check of termination
InitExpandFair ==
    /\ InitExpand
    /\ fs[PathP] \in {NoFile, File(AtQ), File(<<LowerN, LF>> \o AtQ \o <<LF, 112, LF>>)}
    /\ eargs \in {Slice(<<AtQ>>), Slice(<<AtP>>), Slice(<< <<LowerN>>, AtQ, <<112>> >>)}

\* a call that can take a step does take it
SpecExpandFair == InitExpandFair /\ [][NextExpand]_vars /\ WF_vars(NextExpand)

---------------------------------------------------------------------------
(* The codec specification: appendEncodedArg and decodeArg on every short  *)
(* string over bytes that make backslashes, newlines, carriage returns,    *)
(* ASCII letters, a two-byte codepoint and invalid UTF-8.                  *)

CodecBytes == {BS, LF, CR, AT, LowerN, 195, 169}

InitCodec ==
    /\ fs = EmptyFS
    /\ ShortenIdle /\ ExpandIdle
    /\ cs \in StringsUpTo(CodecBytes, MaxStrLen)
    /\ cenc = <<>> /\ cdec = NoDecode /\ cpc = "input"

\* buf = appendEncodedArg(nil, s)
CodecEncode ==
    /\ cpc = "input"
    /\ cenc' = appendEncodedArg(<<>>, cs)
    /\ cpc' = "encoded"
    /\ UNCHANGED <<fs, shortenVars, expandVars, cs, cdec>>

\* decodeArg(string(buf))
CodecDecode ==
    /\ cpc = "encoded"
    /\ cdec' = decodeArg(cenc)
    /\ cpc' = "decoded"
    /\ UNCHANGED <<fs, shortenVars, expandVars, cs, cenc>>

\* decodeArg(s): the string taken as a line of a response file
CodecDecodeLine ==
    /\ cpc = "input"
    /\ cdec' = decodeArg(cs)
    /\ cpc' = "linedecoded"
    /\ UNCHANGED <<fs, shortenVars, expandVars, cs, cenc>>

NextCodec == CodecEncode \/ CodecDecode \/ CodecDecodeLine

SpecCodec == InitCodec /\ [][NextCodec]_vars

---------------------------------------------------------------------------
(* Claims about the codec. *)

\* C2: for every string s of codepoints (valid UTF-8, with backslashes,
\* newlines, carriage returns and non-ASCII codepoints), decodeArg of what
\* appendEncodedArg produces for s is s, with no error.
C2_EscapeRoundTrip ==
    (cpc = "decoded" /\ ValidUTF8(cs)) => (cdec.err = ErrNone /\ cdec.v = cs)

\* one string with a backslash, a newline, a carriage return or a non-ASCII
\* codepoint has been encoded (changing it) and decoded
C2_Witness ==
    /\ cpc = "decoded" /\ ValidUTF8(cs)
    /\ ContainsAny(cs, {BS}) /\ ContainsAny(cs, {LF}) /\ ContainsAny(cs, {195})
    /\ cenc # cs /\ cdec.v = cs

\* the number of backslashes that end the line
TrailingBackslashes(line) ==
    LET stops == {j \in 1..Len(line) : line[j] # BS}
        last == IF stops = {} THEN 0 ELSE CHOOSE j \in stops : \A k \in stops : k <= j
    IN  Len(line) - last

\* a backslash at i that starts an escape (an even number of backslashes
\* comes right before it) and is followed by neither a backslash nor an n
HasBadEscape(line) ==
    \E i \in 1..(Len(line) - 1) :
        /\ line[i] = BS
        /\ line[i + 1] \notin {BS, LowerN}
        /\ TrailingBackslashes(SubSeq(line, 1, i - 1)) % 2 = 0

\* the line ends while the decoder is escaping: an unpaired last backslash
EndsEscaping(line) ==
    ~HasBadEscape(line) /\ TrailingBackslashes(line) % 2 = 1

\* C6: a line that ends in the escaping state (an unpaired trailing
\* backslash) is rejected with the unsupported-escape error.
C6_TrailingEscapeRejected ==
    (cpc = "linedecoded" /\ EndsEscaping(cs)) => cdec.err = ErrEscape

---------------------------------------------------------------------------
(* Claims about Shorten. *)

\* the sum of the byte lengths of the arguments
RECURSIVE TotalBytes(_)
TotalBytes(v) == IF v = <<>> THEN 0 ELSE TotalBytes(Tail(v)) + Len(Head(v))

\* the limit in effect
EffectiveLimit == IF limit = 0 THEN DefaultArgLengthLimit ELSE limit

\* what Shorten returns when it made a response file
AtTemp == Slice(<< <<AT>> \o TempName >>)

NoFileExists == \A p \in AllPaths : ~fs[p].exists

\* C1: when Shorten succeeds, Expand of the list it returned, called
\* before cleanup, succeeds and returns the original arguments in order.
C1_RoundTrip ==
    (epc = "done" /\ ecalled = "yes")
        => (eres.err = ErrNone /\ eres.list.v = args0.v)

C4_OutcomeShapes ==
    spc = "returned" =>
        \/ sret.err = ErrNone /\ sret.cleanup # "nil"
             /\ sret.list \in {args0, AtTemp}
        \/ sret.err # ErrNone /\ sret.list = NilSlice /\ sret.cleanup = "nil"

\* the write failed after the file was created and cleanup was assigned
C4_Witness ==
    spc = "returned" /\ sret.err = ErrWrite /\ created = 1 /\ cleanupVar = "remove"

\* each argument encoded and followed by one newline, in order
RECURSIVE JoinedLines(_)
JoinedLines(v) ==
    IF v = <<>> THEN <<>>
    ELSE appendEncodedArg(<<>>, Head(v)) \o <<LF>> \o JoinedLines(Tail(v))

\* C5: (removal succeeding) the no-op path creates no file; after a failed
\* write or close the file is gone when Shorten returns; after success the
\* file holds every encoded argument and its newline until cleanup is
\* invoked, and is gone after it.
C5_TempFileLifecycle ==
    /\ created <= 1
    /\ (spc = "returned" /\ sret.cleanup = "noop") => (created = 0 /\ NoFileExists)
    /\ (spc = "returned" /\ sret.err = ErrCreate) => (created = 0 /\ NoFileExists)
    /\ (spc = "returned" /\ sret.err \in {ErrWrite, ErrClose})
           => (created = 1 /\ NoFileExists)
    /\ (spc = "returned" /\ sret.cleanup = "remove" /\ ~cleaned)
           => fs[TempName] = File(JoinedLines(args0.v))
    /\ (spc = "returned" /\ cleaned) => NoFileExists

\* the close failed on a created, written file, and the file is gone
C5_Witness ==
    /\ spc = "returned" /\ sret.err = ErrClose
    /\ created = 1 /\ Len(buf) > 0 /\ NoFileExists

---------------------------------------------------------------------------
(* Claims about Expand. *)

\* the positions of the newlines of a content
LFPos(c) == {i \in 1..Len(c) : c[i] = LF}

\* the position of the k-th newline; 0 before the first, Len + 1 after the last
NthLF(c, k) ==
    IF k = 0 THEN 0
    ELSE IF k > Cardinality(LFPos(c)) THEN Len(c) + 1
    ELSE CHOOSE i \in LFPos(c) : Cardinality({j \in LFPos(c) : j <= i}) = k

StripOneCR(l) ==
    IF l # <<>> /\ l[Len(l)] = CR THEN [k \in 1..(Len(l) - 1) |-> l[k]] ELSE l

\* the lines of a content: the segments between newlines, without the
\* segment after the last newline when it is empty, each without one
\* trailing carriage return
RefLines(c) ==
    LET n == Cardinality(LFPos(c))
        seg(k) == SubSeq(c, NthLF(c, k - 1) + 1, NthLF(c, k) - 1)
        m == IF seg(n + 1) = <<>> THEN n ELSE n + 1
    IN  [k \in 1..m |-> StripOneCR(seg(k))]

FlatOk(v) == [st |-> "ok", v |-> v]
FlatErr == [st |-> "err", v |-> <<>>]
FlatDiverge == [st |-> "diverge", v |-> <<>>]

FlatJoin(a, b) ==
    IF a.st = "err" \/ b.st = "err" THEN FlatErr
    ELSE IF a.st = "diverge" \/ b.st = "diverge" THEN FlatDiverge
    ELSE FlatOk(a.v \o b.v)

\* the flattening of a reference "@path", of the lines of a file, and of
\* an argument list; fuel bounds the nesting
RECURSIVE FlatOne(_, _, _), FlatLines(_, _, _, _), FlatArgs(_, _, _, _)
FlatOne(f, s, fuel) ==
    LET path == Tail(s)
    IN  IF fuel = 0 THEN FlatDiverge
        ELSE IF ~(path \in DOMAIN f /\ f[path].exists) THEN FlatErr
        ELSE FlatLines(f, RefLines(f[path].data), 1, fuel)

FlatLines(f, lines, k, fuel) ==
    IF k > Len(lines) THEN FlatOk(<<>>)
    ELSE LET d == decodeArg(lines[k]).v
             here == IF HasBadEscape(lines[k]) THEN FlatErr
                     ELSE IF HasPrefixAt(d) THEN FlatOne(f, d, fuel - 1)
                     ELSE FlatOk(<<d>>)
         IN  FlatJoin(here, FlatLines(f, lines, k + 1, fuel))

FlatArgs(f, v, k, fuel) ==
    IF k > Len(v) THEN FlatOk(<<>>)
    ELSE LET here == IF HasPrefixAt(v[k]) THEN FlatOne(f, v[k], fuel)
                     ELSE FlatOk(<<v[k]>>)
         IN  FlatJoin(here, FlatArgs(f, v, k + 1, fuel))

Flattened == FlatArgs(fs, eargs.v, 1, MaxDepth + 1)

\* C7: when Expand succeeds its result is the in-order flattening of its
\* input: an argument without '@' as it is, an argument "@path" replaced
\* by the decoded lines of the file, a decoded line that starts with '@'
\* replaced in turn by its own expansion.
C7_InOrderFlattening ==
    (epc = "done" /\ eres.err = ErrNone)
        => (Flattened.st = "ok" /\ eres.list.v = Flattened.v)

NestedFile == File(<<LowerN, LF>> \o AtQ \o <<LF, 112, LF>>)

\* "p" holds a line, a reference to "q" and a line; "q" holds two lines
C7_Witness ==
    /\ epc = "done" /\ eres.err = ErrNone
    /\ eargs = Slice(<<AtP>>) /\ fs[PathP] = NestedFile
    /\ fs[PathQ].exists /\ Len(RefLines(fs[PathQ].data)) = 2
    /\ Len(eres.list.v) = 4

\* C8: when a referenced file cannot be read or a line holds an escape
\* other than \\ and \n, at any depth and whatever was accumulated,
\* Expand returns an error and a nil list.
C8_FailsAtomically ==
    /\ (epc = "done" /\ Flattened.st = "err")
           => (eres.err # ErrNone /\ eres.list = NilSlice)
    /\ (epc = "done" /\ eres.err # ErrNone) => eres.list = NilSlice

\* a bad escape on the second line of "q", reached through "p" after a
\* line of "p" and a line of "q" were accumulated
C8_Witness ==
    /\ epc = "done" /\ eres.err = ErrEscape
    /\ eargs = Slice(<<AtP>>) /\ fs[PathP] = NestedFile
    /\ fs[PathQ] = File(<<LF, BS, 112>>)

\* C9: a content is split on '\n' into zero or more lines: no content, no
\* argument; a last segment without newline is a line when not empty;
\* nothing follows a last newline; an empty line is an empty argument; one
\* trailing '\r' is stripped from each line before decoding.
C9_LineSplitting ==
    (epc = "done" /\ eargs = Slice(<<AtQ>>) /\ fs[PathQ].exists) =>
        LET c == fs[PathQ].data
            lines == RefLines(c)
            plain == \A k \in 1..Len(lines) :
                         ~HasBadEscape(lines[k]) /\ ~HasPrefixAt(decodeArg(lines[k]).v)
        IN  /\ plain => /\ eres.err = ErrNone
                        /\ eres.list = Slice([k \in 1..Len(lines) |-> decodeArg(lines[k]).v])
            /\ c = <<>> => eres.list = Slice(<<>>)
            /\ c = <<LowerN>> => eres.list.v = << <<LowerN>> >>
            /\ c = <<LowerN, LF>> => eres.list.v = << <<LowerN>> >>
            /\ c = <<LowerN, CR, LF>> => eres.list.v = << <<LowerN>> >>
            /\ c = <<LF, LF>> => eres.list.v = << <<>>, <<>> >>
            /\ c = <<LF, LowerN>> => eres.list.v = << <<>>, <<LowerN>> >>
            /\ c = <<CR, CR, LF>> => eres.list.v = << <<CR>> >>

\* the content "n\r\n" gave the one argument "n"
C9_Witness ==
    /\ epc = "done" /\ eargs = Slice(<<AtQ>>)
    /\ fs[PathQ] = File(<<LowerN, CR, LF>>)
    /\ eres = [list |-> Slice(<< <<LowerN>> >>), err |-> ErrNone]

\* the files a file's lines refer to
RefTargets(f, path) ==
    IF ~(path \in DOMAIN f /\ f[path].exists) THEN {}
    ELSE LET lines == RefLines(f[path].data)
         IN  {Tail(decodeArg(lines[k]).v) :
                 k \in {j \in 1..Len(lines) :
                           ~HasBadEscape(lines[j]) /\ HasPrefixAt(decodeArg(lines[j]).v)}}

RECURSIVE ReachN(_, _, _)
ReachN(f, S, n) ==
    IF n = 0 THEN S
    ELSE ReachN(f, S \cup UNION {RefTargets(f, p) : p \in S}, n - 1)

\* the files reachable from a set of files
Reach(f, S) == ReachN(f, S, Cardinality(AllPaths))

ArgPaths == {Tail(eargs.v[k]) : k \in {j \in 1..Len(eargs.v) : HasPrefixAt(eargs.v[j])}}

\* no file reachable from the arguments refers, directly or through other
\* files, to itself
AcyclicRefs == \A p \in Reach(fs, ArgPaths) : p \notin Reach(fs, RefTargets(fs, p))

\* a file whose only line refers to itself, or to a file whose only line
\* refers back
SelfReferring ==
    \/ eargs = Slice(<<AtQ>>) /\ fs[PathQ] = File(AtQ)
    \/ eargs = Slice(<<AtP>>) /\ fs[PathP] = File(AtQ) /\ fs[PathQ] = File(AtP)

\* C10: when the references reachable from the arguments form no cycle,
\* Expand eventually returns (a result or an error); nothing but the
\* absence of a cycle ends the recursion: on a file that refers to itself
\* Expand never returns.
C10_Terminates ==
    /\ AcyclicRefs ~> (epc = "done")
    /\ [](SelfReferring => epc # "done")

\* Expand returned from two levels of nesting over files without a cycle
C10_Witness ==
    /\ epc = "done" /\ AcyclicRefs
    /\ eargs = Slice(<<AtP>>) /\ fs[PathP] = NestedFile /\ fs[PathQ].exists

====
